---- MODULE Spec2Model ----
(***************************************************************************)
(* A model of go-butterflymx: the reusing token source (api_token.go) run  *)
(* by concurrent callers, and the paginated Keychains fetch with its       *)
(* compound-document assembler (api_client.go, api_client_typeref.go).     *)
(***************************************************************************)
EXTENDS Integers, Sequences, FiniteSets, TLC

(***************************************************************************)
(* Bounds of the model.                                                    *)
(***************************************************************************)
\* goroutines calling APIToken on one reusedAPITokenSource
NumProcs == 2
\* calls of APIToken in one concurrent run
MaxCalls == 3
\* calls of APIToken in one sequential run
MaxSeqCalls == 4
\* calls of APIToken in one run under fair scheduling
MaxLiveCalls == 2
\* pages one Keychains call may fetch before the collaborator must end
MaxPages == 3

Procs == 1..NumProcs

\* the zero APIStaticToken
NoToken == ""
\* the values an APIStaticToken takes in the model
Tokens == {"", "token1", "token2"}
\* no goroutine
NoProc == 0

VARIABLES
    \* ---- reusedAPITokenSource ----
    old,        \* s.old
    readers,    \* goroutines holding s.mu in shared mode
    writer,     \* goroutine holding s.mu in exclusive mode, or NoProc
    waiting,    \* goroutines blocked in s.mu.Lock()
    inflight,   \* goroutines inside s.new.APIToken
    pc,         \* position of each goroutine in APIToken
    renew,      \* the renew argument of each goroutine's call
    token,      \* the local variable token of each goroutine
    call,       \* bookkeeping of the call in progress of each goroutine
    ret,        \* what each goroutine's last call returned
    ncalls,     \* calls started
    provLog,    \* what s.new.APIToken returned, in order
    hist,       \* the finished calls, in order of return
    \* ---- APIClient.Keychains ----
    kpc,        \* position in Keychains
    page,       \* loop variable page
    hasNext,    \* loop variable hasNext
    allData,    \* allData
    allIncluded,\* allIncluded
    fetchLog,   \* page numbers handed to getAPI, in order
    fetching,   \* number of getAPI calls in flight
    fetchOuts,  \* what each getAPI call returned, in order
    asmLog,     \* arguments of each unmarshalResultsWithReferences call
    kret,       \* what Keychains returned
    \* ---- the assembler and Resolve ----
    aPrimary,   \* the primary items handed to the assembler
    aIncluded,  \* the included items handed to the assembler
    aRef,       \* the *TypedReference[T] the caller resolves
    apc,        \* what the caller has done: "input", "list" or "single"
    aret,       \* what unmarshalResultsWithReferences returned
    sret,       \* what unmarshalResultWithReferences returned
    store,      \* the Refs map of the returned container
    resLog,     \* what each Resolve call returned, in order
    \* ---- TaggedID ----
    tText,      \* the text handed to UnmarshalText, one character per element
    tBefore,    \* *t when UnmarshalText was called
    tTarget,    \* *t
    tErr,       \* whether UnmarshalText returned ErrInvalidTaggedID
    tOut,       \* what String returned
    tpc,        \* what the caller has done: "input", "parsed", "formatted"
    \* ---- ReuseAPITokenSource ----
    heap,       \* the token sources that exist; a reference is an index
    reuseLog,   \* the calls of ReuseAPITokenSource, in order
    clientLog,  \* the calls of OAuth2Client.APIToken, in order
    \* ---- APIClient requests ----
    rpc,        \* position in the operation: "idle", "token", "build", "send"
    rop,        \* operations started
    rbody,      \* whether the operation in progress has a JSON body
    rtok,       \* the local variable token
    rreq,       \* the *http.Request built
    reqLog,     \* token source calls, requests sent and returns, in order
    \* ---- the Tenants and TenantAccessPoints iterators ----
    ikind,      \* which iterator runs: "tenants" or "accesspoints"
    ipc,        \* position in the iterator: "idle", "fetch", "items", "done"
    iafter,     \* the local variable after; 0 is nil
    ipage,      \* resp of the page whose items are being yielded
    iidx,       \* index of the next item of ipage to yield
    ifetch,     \* the doDenizenGraphQL calls: cursor sent, what came back
    iyield,     \* the elements handed to yield, and what yield returned
    \* ---- CollectResults ----
    cseq,       \* the elements the iterator hands to the loop body, in order
    cpos,       \* elements taken from the iterator so far
    cresults,   \* the local variable results
    cpc,        \* "loop" or "returned"
    cret        \* what CollectResults returned

cacheVars == <<old, readers, writer, waiting, inflight, pc, renew, token,
               call, ret, ncalls, provLog, hist>>
keyVars == <<kpc, page, hasNext, allData, allIncluded, fetchLog, fetching,
             fetchOuts, asmLog, kret>>
asmVars == <<aPrimary, aIncluded, aRef, apc, aret, sret, store, resLog>>
tagVars == <<tText, tBefore, tTarget, tErr, tOut, tpc>>
reuseVars == <<heap, reuseLog, clientLog>>
reqVars == <<rpc, rop, rbody, rtok, rreq, reqLog>>
iterVars == <<ikind, ipc, iafter, ipage, iidx, ifetch, iyield>>
collectVars == <<cseq, cpos, cresults, cpc, cret>>
vars == <<cacheVars, keyVars, asmVars, tagVars, reuseVars, reqVars, iterVars,
          collectVars>>

(***************************************************************************)
(* The credential provider behind the cache: s.new.APIToken.  Every        *)
(* provider of the repository returns the zero token with its error, and   *)
(* whatever token the login response carried otherwise.                    *)
(***************************************************************************)
ProviderOutcomes ==
    [tok : Tokens, err : {FALSE}] \cup {[tok |-> NoToken, err |-> TRUE]}

NoCall == [pre |-> NoToken, contacted |-> 0, prov |-> NoToken, err |-> FALSE]

CacheInit ==
    /\ old = NoToken
    /\ readers = {}
    /\ writer = NoProc
    /\ waiting = {}
    /\ inflight = {}
    /\ pc = [p \in Procs |-> "idle"]
    /\ renew = [p \in Procs |-> FALSE]
    /\ token = [p \in Procs |-> NoToken]
    /\ call = [p \in Procs |-> NoCall]
    /\ ret = [p \in Procs |-> [tok |-> NoToken, err |-> FALSE]]
    /\ ncalls = 0
    /\ provLog = <<>>
    /\ hist = <<>>

\* the record of a finished call; nprov counts the provider calls made so far
Finished(p, tok, err) ==
    [renew |-> renew[p], pre |-> call[p].pre, contacted |-> call[p].contacted,
     prov |-> call[p].prov, nprov |-> Len(provLog), read |-> token[p],
     tok |-> tok, err |-> err, post |-> old]

\* APIToken(ctx, r) is entered: `if !renew` picks the fast or the slow path
Begin(p, r, limit) ==
    /\ pc[p] = "idle"
    /\ ncalls < limit
    /\ ncalls' = ncalls + 1
    /\ renew' = [renew EXCEPT ![p] = r]
    /\ token' = [token EXCEPT ![p] = NoToken]
    /\ call' = [call EXCEPT ![p] = [NoCall EXCEPT !.pre = old]]
    /\ pc' = [pc EXCEPT ![p] = IF r THEN "lock" ELSE "rlock"]
    /\ UNCHANGED <<old, readers, writer, waiting, inflight, ret, provLog, hist>>

\* the renew flag is ignored: every call tries the cached token first
CallIgnoringRenew(p) ==
    \E r \in BOOLEAN :
        /\ pc[p] = "idle"
        /\ ncalls < MaxCalls
        /\ ncalls' = ncalls + 1
        /\ renew' = [renew EXCEPT ![p] = r]
        /\ token' = [token EXCEPT ![p] = NoToken]
        /\ call' = [call EXCEPT ![p] = [NoCall EXCEPT !.pre = old]]
        /\ pc' = [pc EXCEPT ![p] = "rlock"]
        /\ UNCHANGED <<old, readers, writer, waiting, inflight, ret, provLog,
                       hist>>

Call(p) == \E r \in BOOLEAN : Begin(p, r, MaxCalls)

\* the fast path takes the lock in exclusive mode
RLockExclusive(p) ==
    /\ pc[p] = "rlock"
    /\ writer = NoProc
    /\ waiting = {}
    /\ readers = {}
    /\ readers' = readers \cup {p}
    /\ pc' = [pc EXCEPT ![p] = "read"]
    /\ UNCHANGED <<old, writer, waiting, inflight, renew, token, call, ret,
                   ncalls, provLog, hist>>

\* s.mu.RLock(): blocks while a writer holds the lock or is waiting for it
RLock(p) ==
    /\ pc[p] = "rlock"
    /\ writer = NoProc
    /\ waiting = {}
    /\ readers' = readers \cup {p}
    /\ pc' = [pc EXCEPT ![p] = "read"]
    /\ UNCHANGED <<old, writer, waiting, inflight, renew, token, call, ret,
                   ncalls, provLog, hist>>

\* token := s.old
Read(p) ==
    /\ pc[p] = "read"
    /\ token' = [token EXCEPT ![p] = old]
    /\ pc' = [pc EXCEPT ![p] = "runlock"]
    /\ UNCHANGED <<old, readers, writer, waiting, inflight, renew, call, ret,
                   ncalls, provLog, hist>>

\* the cached token is returned without the test token != ""
RUnlockUnchecked(p) ==
    /\ pc[p] = "runlock"
    /\ readers' = readers \ {p}
    /\ pc' = [pc EXCEPT ![p] = "idle"]
    /\ ret' = [ret EXCEPT ![p] = [tok |-> token[p], err |-> FALSE]]
    /\ hist' = Append(hist, Finished(p, token[p], FALSE))
    /\ UNCHANGED <<old, writer, waiting, inflight, renew, token, call, ncalls,
                   provLog>>

\* s.mu.RUnlock(); if token != "" { return token, nil }
RUnlock(p) ==
    /\ pc[p] = "runlock"
    /\ readers' = readers \ {p}
    /\ IF token[p] # NoToken
          THEN /\ pc' = [pc EXCEPT ![p] = "idle"]
               /\ ret' = [ret EXCEPT ![p] = [tok |-> token[p], err |-> FALSE]]
               /\ hist' = Append(hist, Finished(p, token[p], FALSE))
          ELSE /\ pc' = [pc EXCEPT ![p] = "lock"]
               /\ UNCHANGED <<ret, hist>>
    /\ UNCHANGED <<old, writer, waiting, inflight, renew, token, call, ncalls,
                   provLog>>

\* s.mu.Lock() is called: the goroutine announces itself and waits
LockRequest(p) ==
    /\ pc[p] = "lock"
    /\ waiting' = waiting \cup {p}
    /\ pc' = [pc EXCEPT ![p] = "lockwait"]
    /\ UNCHANGED <<old, readers, writer, inflight, renew, token, call, ret,
                   ncalls, provLog, hist>>

\* the slow path takes the lock in shared mode
LockAcquireShared(p) ==
    /\ pc[p] = "lockwait"
    /\ writer' = p
    /\ waiting' = waiting \ {p}
    /\ pc' = [pc EXCEPT ![p] = "provider"]
    /\ UNCHANGED <<old, readers, inflight, renew, token, call, ret, ncalls,
                   provLog, hist>>

\* s.mu.Lock() returns: no reader and no writer holds the lock
LockAcquire(p) ==
    /\ pc[p] = "lockwait"
    /\ writer = NoProc
    /\ readers = {}
    /\ writer' = p
    /\ waiting' = waiting \ {p}
    /\ pc' = [pc EXCEPT ![p] = "provider"]
    /\ UNCHANGED <<old, readers, inflight, renew, token, call, ret, ncalls,
                   provLog, hist>>

\* s.new.APIToken(ctx, renew) is called
ProviderCall(p) ==
    /\ pc[p] = "provider"
    /\ inflight' = inflight \cup {p}
    /\ call' = [call EXCEPT ![p].contacted = @ + 1]
    /\ pc' = [pc EXCEPT ![p] = "inflight"]
    /\ UNCHANGED <<old, readers, writer, waiting, renew, token, ret, ncalls,
                   provLog, hist>>

\* the provider's token is not stored: _, err = s.new.APIToken(ctx, renew)
AssignDropped(p, out) ==
    /\ pc[p] = "inflight"
    /\ inflight' = inflight \ {p}
    /\ old' = old
    /\ call' = [call EXCEPT ![p].prov = out.tok, ![p].err = out.err]
    /\ provLog' = Append(provLog, out)
    /\ pc' = [pc EXCEPT ![p] = "unlock"]
    /\ UNCHANGED <<readers, writer, waiting, renew, token, ret, ncalls, hist>>

\* s.old, err = <what the provider returned>
Assign(p, out) ==
    /\ pc[p] = "inflight"
    /\ inflight' = inflight \ {p}
    /\ old' = out.tok
    /\ call' = [call EXCEPT ![p].prov = out.tok, ![p].err = out.err]
    /\ provLog' = Append(provLog, out)
    /\ pc' = [pc EXCEPT ![p] = "unlock"]
    /\ UNCHANGED <<readers, writer, waiting, renew, token, ret, ncalls, hist>>

ProviderReturn(p) == \E out \in ProviderOutcomes : Assign(p, out)

\* the lock is kept when the provider call failed
UnlockOnSuccessOnly(p) ==
    /\ pc[p] = "unlock"
    /\ writer' = IF call[p].err THEN writer ELSE NoProc
    /\ LET tok == IF call[p].err THEN NoToken ELSE old
       IN  /\ ret' = [ret EXCEPT ![p] = [tok |-> tok, err |-> call[p].err]]
           /\ hist' = Append(hist, Finished(p, tok, call[p].err))
    /\ pc' = [pc EXCEPT ![p] = "idle"]
    /\ UNCHANGED <<old, readers, waiting, inflight, renew, token, call, ncalls,
                   provLog>>

\* if err != nil { return "", err }; return s.old, nil; deferred s.mu.Unlock()
Unlock(p) ==
    /\ pc[p] = "unlock"
    /\ writer' = NoProc
    /\ LET tok == IF call[p].err THEN NoToken ELSE old
       IN  /\ ret' = [ret EXCEPT ![p] = [tok |-> tok, err |-> call[p].err]]
           /\ hist' = Append(hist, Finished(p, tok, call[p].err))
    /\ pc' = [pc EXCEPT ![p] = "idle"]
    /\ UNCHANGED <<old, readers, waiting, inflight, renew, token, call,
                   ncalls, provLog>>


(***************************************************************************)
(* Raw references and the reference-aware decoder.                         *)
(***************************************************************************)
\* RawReference.Data: nil, bytes that do not decode into T, or a JSON object
AbsentData == [present |-> FALSE, valid |-> FALSE, fields |-> [name |-> ""]]
BadData == [present |-> TRUE, valid |-> FALSE, fields |-> [name |-> ""]]
Obj(n) == [present |-> TRUE, valid |-> TRUE, fields |-> [name |-> n]]
\* a JSON object with the members of the record f
ObjOf(f) == [present |-> TRUE, valid |-> TRUE, fields |-> f]

RawReference(i, t, d) == [id |-> i, type |-> t, data |-> d]

\* the zero value of the entity type T
ZeroEntity == [id |-> 0, type |-> "", name |-> ""]

\* json.Unmarshal(obj, &t): the members obj mentions are set, the rest kept
Unmarshal(t, obj) ==
    [f \in DOMAIN t |-> IF f \in DOMAIN obj THEN obj[f] ELSE t[f]]

\* refOnly := raw; refOnly.Data = nil; json.Marshal(refOnly)
RefOnly(raw) == [id |-> raw.id, type |-> raw.type]

\* the two passes are swapped: the envelope is decoded over the payload
unmarshalReferenceEnvelopeLast(raw) ==
    IF raw.data.present /\ raw.data.valid
       THEN [err |-> FALSE,
             val |-> Unmarshal(Unmarshal(ZeroEntity, raw.data.fields),
                               RefOnly(raw))]
       ELSE [err |-> TRUE, val |-> ZeroEntity]

\* unmarshalReference[T](raw): the envelope, then the payload over it
unmarshalReference(raw) ==
    IF raw.data.present /\ raw.data.valid
       THEN [err |-> FALSE,
             val |-> Unmarshal(Unmarshal(ZeroEntity, RefOnly(raw)),
                               raw.data.fields)]
       ELSE [err |-> TRUE, val |-> ZeroEntity]

\* the empty map[ID]RawReference
EmptyRefs == [k \in {} |-> RawReference(0, "", AbsentData)]

\* an ID already in the map keeps its entry
PutIfAbsent(refs, raw) ==
    [k \in DOMAIN refs \cup {raw.id} |->
        IF k \in DOMAIN refs THEN refs[k] ELSE raw]

\* results.Refs[raw.ID] = raw
Put(refs, raw) ==
    [k \in DOMAIN refs \cup {raw.id} |-> IF k = raw.id THEN raw ELSE refs[k]]

\* for _, raw := range items { results.Refs[raw.ID] = raw }
RECURSIVE PutAll(_, _)
PutAll(refs, items) ==
    IF items = <<>> THEN refs
    ELSE PutAll(Put(refs, Head(items)), Tail(items))

\* the *ResultsWithReferences and error a call returns
NilResults(e, i) ==
    [nil |-> TRUE, data |-> <<>>, refs |-> EmptyRefs, err |-> e, errID |-> i]
Results(d, r) ==
    [nil |-> FALSE, data |-> d, refs |-> r, err |-> "nil", errID |-> 0]

\* the first loop: the index of the first primary item that stops it, or 0
FirstFailing(data) ==
    LET bad == {i \in 1..Len(data) : unmarshalReference(data[i]).err}
    IN  IF bad = {} THEN 0 ELSE CHOOSE i \in bad : \A j \in bad : i <= j

\* the third loop: the index of the first included item without data, or 0
FirstBare(included) ==
    LET bare == {i \in 1..Len(included) : ~included[i].data.present}
    IN  IF bare = {} THEN 0 ELSE CHOOSE i \in bare : \A j \in bare : i <= j

\* the test raw.Data == nil of the third loop is missing
unmarshalResultsBareIncluded(data, included) ==
    LET f == FirstFailing(data)
    IN  IF f # 0
           THEN IF ~data[f].data.present
                   THEN NilResults("missing data field", data[f].id)
                   ELSE NilResults("unmarshal", data[f].id)
        ELSE Results([i \in 1..Len(data) |-> unmarshalReference(data[i]).val],
                     PutAll(PutAll(EmptyRefs, data), included))

\* the test raw.Data == nil of the first loop is missing
unmarshalResultsNoNilTest(data, included) ==
    LET f == FirstFailing(data)
        b == FirstBare(included)
    IN  IF f # 0 THEN NilResults("unmarshal", data[f].id)
        ELSE IF b # 0
           THEN NilResults("included missing data field", included[b].id)
        ELSE Results([i \in 1..Len(data) |-> unmarshalReference(data[i]).val],
                     PutAll(PutAll(EmptyRefs, data), included))

\* the decoded items are put in front of results.Data instead of appended
unmarshalResultsReversed(data, included) ==
    LET f == FirstFailing(data)
        b == FirstBare(included)
    IN  IF f # 0
           THEN IF ~data[f].data.present
                   THEN NilResults("missing data field", data[f].id)
                   ELSE NilResults("unmarshal", data[f].id)
        ELSE IF b # 0
           THEN NilResults("included missing data field", included[b].id)
        ELSE Results([i \in 1..Len(data) |->
                         unmarshalReference(data[Len(data) + 1 - i]).val],
                     PutAll(PutAll(EmptyRefs, data), included))

\* the included items are decoded into results.Data as well
unmarshalResultsWithIncluded(data, included) ==
    LET f == FirstFailing(data \o included)
        b == FirstBare(included)
        all == data \o included
    IN  IF f # 0
           THEN IF ~all[f].data.present
                   THEN NilResults("missing data field", all[f].id)
                   ELSE NilResults("unmarshal", all[f].id)
        ELSE IF b # 0
           THEN NilResults("included missing data field", included[b].id)
        ELSE Results([i \in 1..Len(all) |-> unmarshalReference(all[i]).val],
                     PutAll(PutAll(EmptyRefs, data), included))

\* unmarshalResultsWithReferences[DataT](data, included, slog)
unmarshalResultsWithReferences(data, included) ==
    LET f == FirstFailing(data)
        b == FirstBare(included)
    IN  IF f # 0
           THEN IF ~data[f].data.present
                   THEN NilResults("missing data field", data[f].id)
                   ELSE NilResults("unmarshal", data[f].id)
        ELSE IF b # 0
           THEN NilResults("included missing data field", included[b].id)
        ELSE Results([i \in 1..Len(data) |-> unmarshalReference(data[i]).val],
                     PutAll(PutAll(EmptyRefs, data), included))

(***************************************************************************)
(* The page-fetch collaborator of Keychains: getAPI.                       *)
(***************************************************************************)
RefA == RawReference(1, "keychains", Obj("a"))
RefB == RawReference(2, "keychains", Obj("b"))
RefC == RawReference(3, "keychains", Obj("c"))
RefX == RawReference(4, "virtual_keys", Obj("x"))
RefY == RawReference(5, "virtual_keys", Obj("y"))
\* an included item that shares the ID of RefA
RefA2 == RawReference(1, "virtual_keys", Obj("a2"))
\* a bare relationship pointer
RefBare == RawReference(2, "keychains", AbsentData)
\* an item whose payload does not decode into the entity type
RefBad == RawReference(3, "keychains", BadData)

\* the data and included arrays a page can carry
PageBodies ==
    { [data |-> <<RefA, RefB>>, included |-> <<RefX>>],
      [data |-> <<RefC>>, included |-> <<RefY>>],
      [data |-> <<RefA>>, included |-> <<RefA2, RefX>>],
      [data |-> <<RefBare>>, included |-> <<>>],
      [data |-> <<RefC>>, included |-> <<RefBare>>],
      [data |-> <<RefB, RefBad>>, included |-> <<>>],
      [data |-> <<>>, included |-> <<>>] }

\* links.next of a page: JSON null or a URL
NextLinks == {"null", "url"}

\* accessCodesResponse
Responses ==
    {[data |-> b.data, included |-> b.included, next |-> n] :
        b \in PageBodies, n \in NextLinks}

NoResponse == [data |-> <<>>, included |-> <<>>, next |-> "null"]

\* the errors of getAPI: the token source, the transport, the status, the body
GetAPIErrors == {"token", "transport", "status", "json"}

\* what getAPI(ctx, path, &resp) can do to resp and return
GetAPIOutcomes ==
    {[err |-> e, resp |-> NoResponse] : e \in GetAPIErrors}
    \cup {[err |-> "nil", resp |-> r] : r \in Responses}

(***************************************************************************)
(* APIClient.Keychains.                                                    *)
(***************************************************************************)

\* Keychains is called: var allData, allIncluded; hasNext := true; page := 1
KeychainsCall ==
    /\ kpc = "idle"
    /\ kpc' = "loop"
    /\ page' = 1
    /\ hasNext' = TRUE
    /\ allData' = <<>>
    /\ allIncluded' = <<>>
    /\ UNCHANGED <<fetchLog, fetching, fetchOuts, asmLog, kret>>

\* the loop condition holds and c.getAPI(ctx, path, &resp) is called
FetchBegin ==
    /\ kpc = "loop"
    /\ hasNext
    /\ page <= MaxPages
    /\ fetchLog' = Append(fetchLog, page)
    /\ fetching' = fetching + 1
    /\ kpc' = "fetching"
    /\ UNCHANGED <<page, hasNext, allData, allIncluded, fetchOuts, asmLog,
                   kret>>

\* the pages accumulated so far are returned beside the error
KeychainsErrorPartial(e) ==
    [nil |-> FALSE,
     data |-> [i \in 1..Len(allData) |-> unmarshalReference(allData[i]).val],
     refs |-> PutAll(PutAll(EmptyRefs, allData), allIncluded),
     err |-> e, errID |-> 0]

\* return nil, err
KeychainsError(e) == NilResults(e, 0)

\* the loop forgets page++
FetchReturnSamePage(out) ==
    /\ kpc = "fetching"
    /\ fetching' = fetching - 1
    /\ fetchOuts' = Append(fetchOuts, out)
    /\ IF out.err # "nil"
          THEN /\ kret' = KeychainsError(out.err)
               /\ kpc' = "returned"
               /\ UNCHANGED <<page, hasNext, allData, allIncluded>>
          ELSE /\ allData' = allData \o out.resp.data
               /\ allIncluded' = allIncluded \o out.resp.included
               /\ hasNext' = (out.resp.next # "null")
               /\ page' = page
               /\ kpc' = "loop"
               /\ UNCHANGED kret
    /\ UNCHANGED <<fetchLog, asmLog>>

\* the page is put in front of what was accumulated
FetchReturnPrepend(out) ==
    /\ kpc = "fetching"
    /\ fetching' = fetching - 1
    /\ fetchOuts' = Append(fetchOuts, out)
    /\ IF out.err # "nil"
          THEN /\ kret' = KeychainsError(out.err)
               /\ kpc' = "returned"
               /\ UNCHANGED <<page, hasNext, allData, allIncluded>>
          ELSE /\ allData' = out.resp.data \o allData
               /\ allIncluded' = out.resp.included \o allIncluded
               /\ hasNext' = (out.resp.next # "null")
               /\ page' = page + 1
               /\ kpc' = "loop"
               /\ UNCHANGED kret
    /\ UNCHANGED <<fetchLog, asmLog>>

\* the loop ends after the first page whatever links.next is
FetchReturnOnePage(out) ==
    /\ kpc = "fetching"
    /\ fetching' = fetching - 1
    /\ fetchOuts' = Append(fetchOuts, out)
    /\ IF out.err # "nil"
          THEN /\ kret' = KeychainsError(out.err)
               /\ kpc' = "returned"
               /\ UNCHANGED <<page, hasNext, allData, allIncluded>>
          ELSE /\ allData' = allData \o out.resp.data
               /\ allIncluded' = allIncluded \o out.resp.included
               /\ hasNext' = FALSE
               /\ page' = page + 1
               /\ kpc' = "loop"
               /\ UNCHANGED kret
    /\ UNCHANGED <<fetchLog, asmLog>>

\* getAPI returns: the error ends the call, the page is appended otherwise
FetchReturn(out) ==
    /\ kpc = "fetching"
    /\ fetching' = fetching - 1
    /\ fetchOuts' = Append(fetchOuts, out)
    /\ IF out.err # "nil"
          THEN /\ kret' = KeychainsError(out.err)
               /\ kpc' = "returned"
               /\ UNCHANGED <<page, hasNext, allData, allIncluded>>
          ELSE /\ allData' = allData \o out.resp.data
               /\ allIncluded' = allIncluded \o out.resp.included
               /\ hasNext' = (out.resp.next # "null")
               /\ page' = page + 1
               /\ kpc' = "loop"
               /\ UNCHANGED kret
    /\ UNCHANGED <<fetchLog, asmLog>>

FetchDone == \E out \in GetAPIOutcomes : FetchReturn(out)

\* the assembler runs inside the loop, on what was accumulated so far
KeychainsAssembleEarly ==
    /\ kpc = "loop"
    /\ asmLog' = Append(asmLog, [data |-> allData, included |-> allIncluded])
    /\ kret' = unmarshalResultsWithReferences(allData, allIncluded)
    /\ kpc' = IF hasNext THEN "loop" ELSE "returned"
    /\ UNCHANGED <<page, hasNext, allData, allIncluded, fetchLog, fetching,
                   fetchOuts>>

\* the loop ends: return unmarshalResultsWithReferences(allData, allIncluded)
KeychainsAssemble ==
    /\ kpc = "loop"
    /\ ~hasNext
    /\ asmLog' = Append(asmLog, [data |-> allData, included |-> allIncluded])
    /\ kret' = unmarshalResultsWithReferences(allData, allIncluded)
    /\ kpc' = "returned"
    /\ UNCHANGED <<page, hasNext, allData, allIncluded, fetchLog, fetching,
                   fetchOuts>>


(***************************************************************************)
(* The assembler called directly, its single-item variant, and Resolve.    *)
(***************************************************************************)
\* primary items one assembler call may get
MaxPrimary == 2
\* included items one assembler call may get
MaxIncluded == 1
\* Resolve calls on one returned container
MaxResolves == 2

\* envelope {id: 7, type: panels} with payload {name: A}
RefPanel == RawReference(7, "panels", Obj("A"))
\* a payload that sets id itself, has a member T does not declare, and no name
RefOver == RawReference(4, "keychains", ObjOf([id |-> 9, other |-> "z"]))

\* the raw references handed to the assembler
AsmItems == {RefA, RefA2, RefBare, RefBad, RefPanel, RefOver}

\* the sequences over S of length at most n
RECURSIVE SeqsUpTo(_, _)
SeqsUpTo(S, n) ==
    IF n = 0 THEN {<<>>}
    ELSE LET shorter == SeqsUpTo(S, n - 1)
         IN  shorter \cup {Append(q, x) : q \in shorter, x \in S}

\* a nil *TypedReference[T], and one that points at (i, t)
NullRef == [null |-> TRUE, id |-> 0, type |-> ""]
TypedRef(i, t) == [null |-> FALSE, id |-> i, type |-> t]

\* the typed references a caller resolves
AsmRefs ==
    {NullRef, TypedRef(1, "keychains"), TypedRef(3, "keychains"),
     TypedRef(9, "panels")}

\* what Resolve returns: the *T and the error
ResolveNil(e) == [nil |-> TRUE, err |-> e, val |-> ZeroEntity]
ResolveOk(v) == [nil |-> FALSE, err |-> "nil", val |-> v]

\* the test ref == nil is missing: the nil pointer is looked up like any other
ResolveNoNilTest(ref, refs) ==
    IF ref.id \notin DOMAIN refs THEN ResolveNil("not found")
    ELSE LET d == unmarshalReference(refs[ref.id])
         IN  IF d.err THEN ResolveNil("unmarshal") ELSE ResolveOk(d.val)

\* (ref *TypedReference[T]).Resolve(refs)
Resolve(ref, refs) ==
    IF ref.null THEN ResolveNil("nil")
    ELSE IF ref.id \notin DOMAIN refs THEN ResolveNil("not found")
    ELSE LET d == unmarshalReference(refs[ref.id])
         IN  IF d.err THEN ResolveNil("unmarshal") ELSE ResolveOk(d.val)

\* what unmarshalResultWithReferences returns, or that it panicked
SingleNil(e, i) ==
    [panic |-> FALSE, nil |-> TRUE, data |-> ZeroEntity, refs |-> EmptyRefs,
     err |-> e, errID |-> i]
SinglePanic ==
    [panic |-> TRUE, nil |-> TRUE, data |-> ZeroEntity, refs |-> EmptyRefs,
     err |-> "nil", errID |-> 0]
Single(d, r) ==
    [panic |-> FALSE, nil |-> FALSE, data |-> d, refs |-> r, err |-> "nil",
     errID |-> 0]

\* unmarshalResultWithReferences[DataT](data, included, slog)
unmarshalResultWithReferences(data, included) ==
    LET results == unmarshalResultsWithReferences(<<data>>, included)
    IN  IF results.nil THEN SingleNil(results.err, results.errID)
        ELSE IF Len(results.data) # 1 THEN SinglePanic
        ELSE Single(results.data[1], results.refs)

\* the caller holds its inputs and has called nothing yet
AsmIdle ==
    /\ apc = "input"
    /\ aret = NilResults("nil", 0)
    /\ sret = SingleNil("nil", 0)
    /\ store = EmptyRefs
    /\ resLog = <<>>

\* the inputs of the existing specifications: nothing to assemble
AsmNone ==
    /\ aPrimary = <<>>
    /\ aIncluded = <<>>
    /\ aRef = NullRef
    /\ AsmIdle

\* every input within the bounds
AsmInit ==
    /\ aPrimary \in SeqsUpTo(AsmItems, MaxPrimary)
    /\ aIncluded \in SeqsUpTo(AsmItems, MaxIncluded)
    /\ aRef \in AsmRefs
    /\ AsmIdle

\* results, err := unmarshalResultsWithReferences(aPrimary, aIncluded, slog)
AssembleAll ==
    /\ apc = "input"
    /\ aret' = unmarshalResultsWithReferences(aPrimary, aIncluded)
    /\ store' = aret'.refs
    /\ apc' = "list"
    /\ UNCHANGED <<aPrimary, aIncluded, aRef, sret, resLog>>

\* result, err := unmarshalResultWithReferences(aPrimary[1], aIncluded, slog)
AssembleOne ==
    /\ apc = "input"
    /\ aPrimary # <<>>
    /\ sret' = unmarshalResultWithReferences(Head(aPrimary), aIncluded)
    /\ store' = sret'.refs
    /\ apc' = "single"
    /\ UNCHANGED <<aPrimary, aIncluded, aRef, aret, resLog>>

\* a container was returned to the caller
Assembled == (apc = "list" /\ ~aret.nil) \/ (apc = "single" /\ ~sret.nil)

\* Resolve drops the entry it has decoded from refs
ResolveStepConsuming ==
    /\ Assembled
    /\ Len(resLog) < MaxResolves
    /\ resLog' = Append(resLog, Resolve(aRef, store))
    /\ store' = [k \in DOMAIN store \ {aRef.id} |-> store[k]]
    /\ UNCHANGED <<aPrimary, aIncluded, aRef, apc, aret, sret>>

\* aRef.Resolve(results.Refs): refs and the receiver are only read
ResolveStep ==
    /\ Assembled
    /\ Len(resLog) < MaxResolves
    /\ resLog' = Append(resLog, Resolve(aRef, store))
    /\ UNCHANGED <<aPrimary, aIncluded, aRef, apc, aret, sret, store>>


(***************************************************************************)
(* TaggedID: UnmarshalText and String.  A text is a sequence of            *)
(* one-character strings.                                                  *)
(***************************************************************************)
\* characters of the number segment of a text
MaxNumLen == 2

Dash == "-"
DigitChars == <<"0", "1", "2", "3", "4", "5", "6", "7", "8", "9">>
IsDigit(c) == \E d \in 1..10 : DigitChars[d] = c
DigitValue(c) == (CHOOSE d \in 1..10 : DigitChars[d] = c) - 1

\* the literal "prod"
Prod == <<"p", "r", "o", "d">>

\* the digits of strconv.ParseInt, most significant first, after the sign
RECURSIVE ParseDigits(_, _)
ParseDigits(digits, acc) ==
    IF digits = <<>> THEN acc
    ELSE ParseDigits(Tail(digits), acc * 10 + DigitValue(Head(digits)))

\* strconv.Atoi(s): an optional sign, then one decimal digit or more
Atoi(s) ==
    LET signed == s # <<>> /\ Head(s) \in {"+", "-"}
        digits == IF signed THEN Tail(s) ELSE s
    IN  IF digits = <<>> \/ \E k \in 1..Len(digits) : ~IsDigit(digits[k])
           THEN [err |-> TRUE, val |-> 0]
           ELSE [err |-> FALSE,
                 val |-> IF signed /\ Head(s) = "-"
                            THEN 0 - ParseDigits(digits, 0)
                            ELSE ParseDigits(digits, 0)]

\* the decimal digits of n >= 0, most significant first
RECURSIVE FormatDigits(_)
FormatDigits(n) ==
    IF n < 10 THEN <<DigitChars[n + 1]>>
    ELSE Append(FormatDigits(n \div 10), DigitChars[(n % 10) + 1])

\* the verb %d of fmt.Sprintf
FormatInt(n) == IF n < 0 THEN <<Dash>> \o FormatDigits(0 - n) ELSE FormatDigits(n)

\* the position of the first dash of s, or 0
FirstDash(s) ==
    LET at == {i \in 1..Len(s) : s[i] = Dash}
    IN  IF at = {} THEN 0 ELSE CHOOSE i \in at : \A j \in at : i <= j

\* strings.SplitN(s, "-", n): at most n parts, the last one the unsplit rest
RECURSIVE SplitN(_, _)
SplitN(s, n) ==
    LET i == FirstDash(s)
    IN  IF n <= 1 \/ i = 0 THEN <<s>>
        ELSE <<SubSeq(s, 1, i - 1)>> \o SplitN(SubSeq(s, i + 1, Len(s)), n - 1)

TaggedID(p, t, n) == [Prefix |-> p, Type |-> t, Number |-> n]

\* (t TaggedID).String()
String(t) == t.Prefix \o <<Dash>> \o t.Type \o <<Dash>> \o FormatInt(t.Number)

\* what UnmarshalText does: the error, and *t afterwards
Invalid(t) == [err |-> TRUE, t |-> t]
Parsed(t) == [err |-> FALSE, t |-> t]

\* the test parts[1] == "" is missing
UnmarshalTextAnyType(t, text) ==
    LET parts == SplitN(text, 3)
    IN  IF Len(parts) < 3 \/ parts[1] # Prod THEN Invalid(t)
        ELSE LET id == Atoi(parts[3])
             IN  IF id.err THEN Invalid(t)
                 ELSE Parsed(TaggedID(parts[1], parts[2], id.val))

\* (t *TaggedID).UnmarshalText(text)
UnmarshalText(t, text) ==
    LET parts == SplitN(text, 3)
    IN  IF Len(parts) < 3 \/ parts[1] # Prod \/ parts[2] = <<>> THEN Invalid(t)
        ELSE LET id == Atoi(parts[3])
             IN  IF id.err THEN Invalid(t)
                 ELSE Parsed(TaggedID(parts[1], parts[2], id.val))

\* the segments the texts are made of
TagPrefixes == {Prod, <<"d", "e", "v">>, <<>>}
TagTypes == {<<>>, <<"a">>, <<"u", "n">>}
TagNumbers == SeqsUpTo({"0", "5", "1", "+", "-", "x"}, MaxNumLen)

\* the texts handed to UnmarshalText
TagTexts ==
    {p \o <<Dash>> \o t \o <<Dash>> \o n :
        p \in TagPrefixes, t \in TagTypes, n \in TagNumbers}
    \cup {<<>>, <<"b", "a", "d">>, Prod, Prod \o <<Dash, "a">>}

\* the values *t has before the call
TagTargets == {TaggedID(<<>>, <<>>, 0), TaggedID(Prod, <<"u", "n">>, 9)}

TagIdle ==
    /\ tBefore = tTarget
    /\ tErr = FALSE
    /\ tOut = <<>>
    /\ tpc = "input"

\* the inputs of the other specifications: no text
TagNone ==
    /\ tText = <<>>
    /\ tTarget = TaggedID(<<>>, <<>>, 0)
    /\ TagIdle

\* every input within the bounds
TagInit ==
    /\ tText \in TagTexts
    /\ tTarget \in TagTargets
    /\ TagIdle

\* err := t.UnmarshalText(text)
TagUnmarshal ==
    /\ tpc = "input"
    /\ LET r == UnmarshalText(tTarget, tText)
       IN  /\ tErr' = r.err
           /\ tTarget' = r.t
    /\ tpc' = "parsed"
    /\ UNCHANGED <<tText, tBefore, tOut>>

\* out := t.String(), after a successful UnmarshalText
TagString ==
    /\ tpc = "parsed"
    /\ ~tErr
    /\ tOut' = String(tTarget)
    /\ tpc' = "formatted"
    /\ UNCHANGED <<tText, tBefore, tTarget, tErr>>


(***************************************************************************)
(* ReuseAPITokenSource.  The token sources live in a heap; the interface   *)
(* value handed to ReuseAPITokenSource is a reference into it.             *)
(***************************************************************************)
\* token sources that may exist at once
MaxObjects == 4
\* calls of ReuseAPITokenSource
MaxReuses == 3
\* calls of OAuth2Client.APIToken
MaxClientCalls == 2

\* APIStaticToken(tok)
StaticSource(tok) == [kind |-> "static", tok |-> tok]
\* oauth2APITokenSource{...}
OAuth2Source == [kind |-> "oauth2"]
\* &reusedAPITokenSource{new: src}
ReusedSource(src) == [kind |-> "reused", new |-> src, old |-> NoToken]

\* src.(*reusedAPITokenSource)
IsReused(h, src) == h[src].kind = "reused"

\* what ReuseAPITokenSource does: the reference returned and the heap after
ReuseAlwaysWraps(h, src) ==
    [ret |-> Len(h) + 1, heap |-> Append(h, ReusedSource(src))]

\* ReuseAPITokenSource(src)
ReuseAPITokenSource(h, src) ==
    IF IsReused(h, src)
       THEN [ret |-> src, heap |-> h]
       ELSE [ret |-> Len(h) + 1, heap |-> Append(h, ReusedSource(src))]

\* src.APIToken(ctx, renew) with no other call in progress, where out is what
\* the authorization server answers if it is asked: the heap afterwards, the
\* token and the error returned
RECURSIVE SourceAPIToken(_, _, _, _)
SourceAPIToken(h, src, r, out) ==
    IF h[src].kind = "static"
       THEN [heap |-> h, tok |-> h[src].tok, err |-> FALSE, asked |-> 0]
    ELSE IF h[src].kind = "oauth2"
       THEN [heap |-> h, tok |-> out.tok, err |-> out.err, asked |-> 1]
    ELSE IF ~r /\ h[src].old # NoToken
       THEN [heap |-> h, tok |-> h[src].old, err |-> FALSE, asked |-> 0]
    ELSE LET in == SourceAPIToken(h, h[src].new, r, out)
         IN  [heap |-> [in.heap EXCEPT ![src].old = in.tok],
              tok |-> IF in.err THEN NoToken ELSE in.tok,
              err |-> in.err, asked |-> in.asked]

\* the oauth2APITokenSource of the OAuth2Client
ClientSource == 2

\* the client keeps the wrapper it made first and hands it out again
APITokenSourceKept(h) ==
    LET made == {i \in DOMAIN h : IsReused(h, i) /\ h[i].new = ClientSource}
    IN  IF made = {} THEN ReuseAPITokenSource(h, ClientSource)
        ELSE [ret |-> CHOOSE i \in made : \A j \in made : i <= j, heap |-> h]

\* c.APITokenSource(): the reference returned and the heap after
APITokenSource(h) == ReuseAPITokenSource(h, ClientSource)

\* the other specifications have no token source in the heap
ReuseNone ==
    /\ heap = <<>>
    /\ reuseLog = <<>>
    /\ clientLog = <<>>

\* a static token and an OAuth2 source exist, nothing is wrapped yet
ReuseInit ==
    /\ heap = <<StaticSource("token1"), OAuth2Source>>
    /\ reuseLog = <<>>
    /\ clientLog = <<>>

\* ret := ReuseAPITokenSource(src)
Reuse(src) ==
    /\ Len(reuseLog) < MaxReuses
    /\ LET r == ReuseAPITokenSource(heap, src)
       IN  /\ Len(r.heap) <= MaxObjects
           /\ heap' = r.heap
           /\ reuseLog' = Append(reuseLog,
                  [arg |-> src, ret |-> r.ret, before |-> heap, after |-> r.heap])
    /\ UNCHANGED clientLog

\* a call of APIToken on a wrapper ReuseAPITokenSource returned
ReuseAPIToken(src, r, out) ==
    /\ IsReused(heap, src)
    /\ heap' = SourceAPIToken(heap, src, r, out).heap
    /\ UNCHANGED <<reuseLog, clientLog>>

\* a wrapper c.APITokenSource() returned earlier is held by its caller, and
\* may have a token cached
ClientInit ==
    /\ \E t \in Tokens :
          heap = <<StaticSource("token1"), OAuth2Source,
                   [ReusedSource(ClientSource) EXCEPT !.old = t]>>
    /\ reuseLog = <<>>
    /\ clientLog = <<>>

\* (c *OAuth2Client).APIToken(ctx, renew): c.APITokenSource().APIToken(...);
\* nothing refers to a wrapper made here once the call has returned, so it
\* leaves the heap with the call
OAuth2ClientAPIToken(r, out) ==
    /\ Len(clientLog) < MaxClientCalls
    /\ LET w == APITokenSource(heap)
           res == SourceAPIToken(w.heap, w.ret, r, out)
       IN  /\ heap' = SubSeq(res.heap, 1, Len(heap))
           /\ clientLog' = Append(clientLog,
                  [renew |-> r, out |-> out, tok |-> res.tok, err |-> res.err,
                   asked |-> res.asked, src |-> w.ret, had |-> heap])
    /\ UNCHANGED reuseLog


(***************************************************************************)
(* The requests of APIClient: getAPI, doAPIWithBody, doDenizenGraphQL      *)
(* (createRequest and doJSONRequest in the later version).                 *)
(***************************************************************************)
\* operations of the client in one run
MaxRequests == 2

\* what c.tokenSource.APIToken returns: a token, or the zero token and an error
TokenErrors == {"denied", "network"}
TokenResults ==
    [tok : Tokens, err : {"nil"}] \cup [tok : {NoToken}, err : TokenErrors]

\* fmt.Errorf("failed to get API token: %w", err)
TokenError(err) == <<"failed to get API token", err>>

\* "Bearer " + string(token)
Bearer(tok) == <<"Bearer ", tok>>

\* no request
NoRequest == [auth |-> <<>>, body |-> FALSE]

\* what building the request can fail with, and what the round trip gives
BuildOutcomes == {"ok", "marshal", "request"}
SendOutcomes == {"ok", "transport", "status", "json"}

\* an entry of the log: a token source call, a request sent, or a return
Event(ev, op, tok, err, req) ==
    [ev |-> ev, op |-> op, tok |-> tok, err |-> err, req |-> req]

ReqNone ==
    /\ rpc = "idle"
    /\ rop = 0
    /\ rbody = FALSE
    /\ rtok = NoToken
    /\ rreq = NoRequest
    /\ reqLog = <<>>

\* an operation of the client is called, with a JSON body or without
RequestStart(body) ==
    /\ rpc = "idle"
    /\ rop < MaxRequests
    /\ rop' = rop + 1
    /\ rbody' = body
    /\ rtok' = NoToken
    /\ rreq' = NoRequest
    /\ rpc' = "token"
    /\ UNCHANGED reqLog

\* the error of the token source is not tested
RequestTokenUnchecked(res) ==
    /\ rpc = "token"
    /\ rtok' = res.tok
    /\ rpc' = "build"
    /\ reqLog' = Append(reqLog, Event("token", rop, res.tok, res.err, NoRequest))
    /\ UNCHANGED <<rop, rbody, rreq>>

\* token, err := c.tokenSource.APIToken(ctx); if err != nil { return ... }
RequestToken(res) ==
    /\ rpc = "token"
    /\ IF res.err # "nil"
          THEN /\ rpc' = "idle"
               /\ reqLog' = reqLog \o
                      <<Event("token", rop, res.tok, res.err, NoRequest),
                        Event("return", rop, NoToken, TokenError(res.err),
                              NoRequest)>>
               /\ UNCHANGED rtok
          ELSE /\ rtok' = res.tok
               /\ rpc' = "build"
               /\ reqLog' = Append(reqLog,
                      Event("token", rop, res.tok, res.err, NoRequest))
    /\ UNCHANGED <<rop, rbody, rreq>>

\* json.Marshal of the body, http.NewRequestWithContext, req.Header.Set
RequestBuild(out) ==
    /\ rpc = "build"
    /\ out = "marshal" => rbody
    /\ IF out # "ok"
          THEN /\ rpc' = "idle"
               /\ reqLog' = Append(reqLog,
                      Event("return", rop, NoToken, <<out>>, NoRequest))
               /\ UNCHANGED rreq
          ELSE /\ rreq' = [auth |-> Bearer(rtok), body |-> rbody]
               /\ rpc' = "send"
               /\ UNCHANGED reqLog
    /\ UNCHANGED <<rop, rbody, rtok>>

\* doJSONRequest: c.opts.HTTPClient.Do(req), the status test, the decoding
RequestSend(out) ==
    /\ rpc = "send"
    /\ rpc' = "idle"
    /\ reqLog' = reqLog \o
           <<Event("send", rop, NoToken, <<>>, rreq),
             Event("return", rop, NoToken, <<out>>, NoRequest)>>
    /\ UNCHANGED <<rop, rbody, rtok, rreq>>


(***************************************************************************)
(* The cursor-paginated iterators: Tenants and TenantAccessPoints.         *)
(***************************************************************************)
\* pages one iteration may fetch
MaxIterFetches == 2

IterKinds == {"tenants", "accesspoints"}

\* a GraphQL response: the tenant nodes it has (TenantAccessPoints reads the
\* access points of the first), the items, pageInfo.hasNextPage and
\* pageInfo.endCursor
GraphQLPage(n, items, more, cursor) ==
    [tenants |-> n, items |-> items, hasNextPage |-> more, endCursor |-> cursor]

NoPage == GraphQLPage(0, <<>>, FALSE, 0)

\* the pages the collaborator answers with
GraphQLPages ==
    { GraphQLPage(1, <<"a", "b">>, TRUE, 1),
      GraphQLPage(1, <<"c">>, TRUE, 2),
      GraphQLPage(1, <<>>, TRUE, 2),
      GraphQLPage(1, <<"b", "a">>, FALSE, 2),
      GraphQLPage(0, <<>>, FALSE, 0),
      GraphQLPage(2, <<"a">>, TRUE, 1) }

\* what doDenizenGraphQL can do to resp and return
GraphQLOutcomes ==
    {[err |-> "fetch", resp |-> NoPage]}
    \cup {[err |-> "nil", resp |-> r] : r \in GraphQLPages}

\* an element handed to yield, the pages fetched by then, what yield returned
Element(v, e, n, cont) == [val |-> v, err |-> e, nfetch |-> n, cont |-> cont]

(***************************************************************************)
(* CollectResults.                                                         *)
(***************************************************************************)
\* elements an iterator hands to CollectResults
MaxElements == 3

\* a pair (v, err) of an iter.Seq2[T, error]
Pair(v, e) == [val |-> v, err |-> e]

\* the pairs the iterators hand over: a value, or an error beside some value
Pairs ==
    {Pair("a", "nil"), Pair("b", "nil"), Pair("", "e1"), Pair("a", "e2")}

CollectIdle ==
    /\ cpos = 0
    /\ cresults = <<>>
    /\ cpc = "loop"
    /\ cret = [results |-> <<>>, err |-> "nil"]

\* the other specifications collect nothing
CollectNone ==
    /\ cseq = <<>>
    /\ CollectIdle

\* CollectResults(seq) is called on an iterator that hands over cseq for as
\* long as the loop body asks for more
CollectInit ==
    /\ cseq \in SeqsUpTo(Pairs, MaxElements)
    /\ CollectIdle

\* the value is appended before the error is tested
CollectNextAppendFirst ==
    /\ cpc = "loop"
    /\ cpos < Len(cseq)
    /\ cpos' = cpos + 1
    /\ LET e == cseq[cpos + 1]
       IN  IF e.err # "nil"
              THEN /\ cresults' = Append(cresults, e.val)
                   /\ cret' = [results |-> cresults', err |-> e.err]
                   /\ cpc' = "returned"
              ELSE /\ cresults' = Append(cresults, e.val)
                   /\ UNCHANGED <<cret, cpc>>
    /\ UNCHANGED cseq

\* one run of the loop body: if err != nil { return results, err };
\* results = append(results, v)
CollectNext ==
    /\ cpc = "loop"
    /\ cpos < Len(cseq)
    /\ cpos' = cpos + 1
    /\ LET e == cseq[cpos + 1]
       IN  IF e.err # "nil"
              THEN /\ cret' = [results |-> cresults, err |-> e.err]
                   /\ cpc' = "returned"
                   /\ UNCHANGED cresults
              ELSE /\ cresults' = Append(cresults, e.val)
                   /\ UNCHANGED <<cret, cpc>>
    /\ UNCHANGED cseq

\* the iterator is exhausted: return results, nil
CollectEnd ==
    /\ cpc = "loop"
    /\ cpos = Len(cseq)
    /\ cret' = [results |-> cresults, err |-> "nil"]
    /\ cpc' = "returned"
    /\ UNCHANGED <<cseq, cpos, cresults>>

IterNone ==
    /\ ikind = "tenants"
    /\ ipc = "idle"
    /\ iafter = 0
    /\ ipage = NoPage
    /\ iidx = 1
    /\ ifetch = <<>>
    /\ iyield = <<>>

\* the consumer starts to range over c.Tenants(ctx) or c.TenantAccessPoints(...)
IterStart(kind) ==
    /\ ipc = "idle"
    /\ ikind' = kind
    /\ iafter' = 0
    /\ ipc' = "fetch"
    /\ UNCHANGED <<ipage, iidx, ifetch, iyield>>

\* the iterator goes on with the next page after it has yielded the error
IterFetchNoReturn(out, cont) ==
    /\ ipc = "fetch"
    /\ Len(ifetch) < MaxIterFetches
    /\ ifetch' = Append(ifetch, [after |-> iafter, out |-> out])
    /\ IF out.err # "nil"
          THEN /\ iyield' = Append(iyield,
                      Element("", out.err, Len(ifetch) + 1, cont))
               /\ ipc' = "fetch"
               /\ UNCHANGED <<ipage, iidx>>
       ELSE IF ikind = "accesspoints" /\ out.resp.tenants = 0
          THEN /\ ipc' = "done"
               /\ UNCHANGED <<ipage, iidx, iyield>>
       ELSE IF ikind = "accesspoints" /\ out.resp.tenants > 1
          THEN /\ iyield' = Append(iyield,
                      Element("", "more than 1 tenant returned",
                              Len(ifetch) + 1, cont))
               /\ ipc' = "done"
               /\ UNCHANGED <<ipage, iidx>>
       ELSE /\ ipage' = out.resp
            /\ iidx' = 1
            /\ ipc' = "items"
            /\ UNCHANGED iyield
    /\ UNCHANGED <<ikind, iafter>>

\* doDenizenGraphQL(ctx, ..., {"after": after}, &resp) and the tests on what it
\* returned; cont is what yield returns, which the iterator does not read here
IterFetch(out, cont) ==
    /\ ipc = "fetch"
    /\ Len(ifetch) < MaxIterFetches
    /\ ifetch' = Append(ifetch, [after |-> iafter, out |-> out])
    /\ IF out.err # "nil"
          THEN /\ iyield' = Append(iyield,
                      Element("", out.err, Len(ifetch) + 1, cont))
               /\ ipc' = "done"
               /\ UNCHANGED <<ipage, iidx>>
       ELSE IF ikind = "accesspoints" /\ out.resp.tenants = 0
          THEN /\ ipc' = "done"
               /\ UNCHANGED <<ipage, iidx, iyield>>
       ELSE IF ikind = "accesspoints" /\ out.resp.tenants > 1
          THEN /\ iyield' = Append(iyield,
                      Element("", "more than 1 tenant returned",
                              Len(ifetch) + 1, cont))
               /\ ipc' = "done"
               /\ UNCHANGED <<ipage, iidx>>
       ELSE /\ ipage' = out.resp
            /\ iidx' = 1
            /\ ipc' = "items"
            /\ UNCHANGED iyield
    /\ UNCHANGED <<ikind, iafter>>

\* if !yield(item, nil) { return }
IterYield(cont) ==
    /\ ipc = "items"
    /\ iidx <= Len(ipage.items)
    /\ iyield' = Append(iyield,
           Element(ipage.items[iidx], "nil", Len(ifetch), cont))
    /\ IF cont
          THEN /\ iidx' = iidx + 1
               /\ UNCHANGED ipc
          ELSE /\ ipc' = "done"
               /\ UNCHANGED iidx
    /\ UNCHANGED <<ikind, iafter, ipage, ifetch>>

\* the items are done: if !HasNextPage { return }; after = &EndCursor
IterPageEnd ==
    /\ ipc = "items"
    /\ iidx > Len(ipage.items)
    /\ IF ipage.hasNextPage
          THEN /\ iafter' = ipage.endCursor
               /\ ipc' = "fetch"
          ELSE /\ ipc' = "done"
               /\ UNCHANGED iafter
    /\ UNCHANGED <<ikind, ipage, iidx, ifetch, iyield>>

KeyInit ==
    /\ kpc = "idle"
    /\ page = 1
    /\ hasNext = TRUE
    /\ allData = <<>>
    /\ allIncluded = <<>>
    /\ fetchLog = <<>>
    /\ fetching = 0
    /\ fetchOuts = <<>>
    /\ asmLog = <<>>
    /\ kret = NilResults("nil", 0)

Init == CacheInit /\ KeyInit /\ AsmNone /\ TagNone /\ ReuseNone /\ ReqNone /\ IterNone /\ CollectNone

\* concurrent callers of one reusedAPITokenSource
Next ==
    \/ \E p \in Procs : Call(p) /\ UNCHANGED <<keyVars, asmVars, tagVars, reuseVars, reqVars, iterVars, collectVars>>
    \/ \E p \in Procs : RLock(p) /\ UNCHANGED <<keyVars, asmVars, tagVars, reuseVars, reqVars, iterVars, collectVars>>
    \/ \E p \in Procs : Read(p) /\ UNCHANGED <<keyVars, asmVars, tagVars, reuseVars, reqVars, iterVars, collectVars>>
    \/ \E p \in Procs : RUnlock(p) /\ UNCHANGED <<keyVars, asmVars, tagVars, reuseVars, reqVars, iterVars, collectVars>>
    \/ \E p \in Procs : LockRequest(p) /\ UNCHANGED <<keyVars, asmVars, tagVars, reuseVars, reqVars, iterVars, collectVars>>
    \/ \E p \in Procs : LockAcquire(p) /\ UNCHANGED <<keyVars, asmVars, tagVars, reuseVars, reqVars, iterVars, collectVars>>
    \/ \E p \in Procs : ProviderCall(p) /\ UNCHANGED <<keyVars, asmVars, tagVars, reuseVars, reqVars, iterVars, collectVars>>
    \/ \E p \in Procs : ProviderReturn(p) /\ UNCHANGED <<keyVars, asmVars, tagVars, reuseVars, reqVars, iterVars, collectVars>>
    \/ \E p \in Procs : Unlock(p) /\ UNCHANGED <<keyVars, asmVars, tagVars, reuseVars, reqVars, iterVars, collectVars>>

Spec == Init /\ [][Next]_vars

\* a goroutine inside APIToken takes its next step
Proceed(p) ==
    /\ \/ RLock(p) \/ Read(p) \/ RUnlock(p) \/ LockRequest(p)
       \/ LockAcquire(p) \/ ProviderCall(p) \/ ProviderReturn(p) \/ Unlock(p)
    /\ UNCHANGED <<keyVars, asmVars, tagVars, reuseVars, reqVars, iterVars, collectVars>>

\* the scheduler runs every goroutine that can take a step, a blocked
\* s.mu.Lock() or s.mu.RLock() returns once the lock can be had, and every
\* provider call returns
Fairness == \A p \in Procs : WF_vars(Proceed(p))

\* a call under fair scheduling
LiveCall(p) == \E r \in BOOLEAN : Begin(p, r, MaxLiveCalls)

NextLive ==
    \/ \E p \in Procs : LiveCall(p) /\ UNCHANGED <<keyVars, asmVars, tagVars, reuseVars, reqVars, iterVars, collectVars>>
    \/ \E p \in Procs : RLock(p) /\ UNCHANGED <<keyVars, asmVars, tagVars, reuseVars, reqVars, iterVars, collectVars>>
    \/ \E p \in Procs : Read(p) /\ UNCHANGED <<keyVars, asmVars, tagVars, reuseVars, reqVars, iterVars, collectVars>>
    \/ \E p \in Procs : RUnlock(p) /\ UNCHANGED <<keyVars, asmVars, tagVars, reuseVars, reqVars, iterVars, collectVars>>
    \/ \E p \in Procs : LockRequest(p) /\ UNCHANGED <<keyVars, asmVars, tagVars, reuseVars, reqVars, iterVars, collectVars>>
    \/ \E p \in Procs : LockAcquire(p) /\ UNCHANGED <<keyVars, asmVars, tagVars, reuseVars, reqVars, iterVars, collectVars>>
    \/ \E p \in Procs : ProviderCall(p) /\ UNCHANGED <<keyVars, asmVars, tagVars, reuseVars, reqVars, iterVars, collectVars>>
    \/ \E p \in Procs : ProviderReturn(p) /\ UNCHANGED <<keyVars, asmVars, tagVars, reuseVars, reqVars, iterVars, collectVars>>
    \/ \E p \in Procs : Unlock(p) /\ UNCHANGED <<keyVars, asmVars, tagVars, reuseVars, reqVars, iterVars, collectVars>>

SpecLive == Init /\ [][NextLive]_vars /\ Fairness

\* one caller at a time
SeqCall(p) ==
    /\ \A q \in Procs : pc[q] = "idle"
    /\ \E r \in BOOLEAN : Begin(p, r, MaxSeqCalls)

NextSeq ==
    \/ \E p \in Procs : SeqCall(p) /\ UNCHANGED <<keyVars, asmVars, tagVars, reuseVars, reqVars, iterVars, collectVars>>
    \/ \E p \in Procs : RLock(p) /\ UNCHANGED <<keyVars, asmVars, tagVars, reuseVars, reqVars, iterVars, collectVars>>
    \/ \E p \in Procs : Read(p) /\ UNCHANGED <<keyVars, asmVars, tagVars, reuseVars, reqVars, iterVars, collectVars>>
    \/ \E p \in Procs : RUnlock(p) /\ UNCHANGED <<keyVars, asmVars, tagVars, reuseVars, reqVars, iterVars, collectVars>>
    \/ \E p \in Procs : LockRequest(p) /\ UNCHANGED <<keyVars, asmVars, tagVars, reuseVars, reqVars, iterVars, collectVars>>
    \/ \E p \in Procs : LockAcquire(p) /\ UNCHANGED <<keyVars, asmVars, tagVars, reuseVars, reqVars, iterVars, collectVars>>
    \/ \E p \in Procs : ProviderCall(p) /\ UNCHANGED <<keyVars, asmVars, tagVars, reuseVars, reqVars, iterVars, collectVars>>
    \/ \E p \in Procs : ProviderReturn(p) /\ UNCHANGED <<keyVars, asmVars, tagVars, reuseVars, reqVars, iterVars, collectVars>>
    \/ \E p \in Procs : Unlock(p) /\ UNCHANGED <<keyVars, asmVars, tagVars, reuseVars, reqVars, iterVars, collectVars>>

SpecSeq == Init /\ [][NextSeq]_vars

\* one Keychains call against the page-fetch collaborator
NextKeychains ==
    \/ KeychainsCall /\ UNCHANGED <<cacheVars, asmVars, tagVars, reuseVars, reqVars, iterVars, collectVars>>
    \/ FetchBegin /\ UNCHANGED <<cacheVars, asmVars, tagVars, reuseVars, reqVars, iterVars, collectVars>>
    \/ FetchDone /\ UNCHANGED <<cacheVars, asmVars, tagVars, reuseVars, reqVars, iterVars, collectVars>>
    \/ KeychainsAssemble /\ UNCHANGED <<cacheVars, asmVars, tagVars, reuseVars, reqVars, iterVars, collectVars>>

SpecKeychains == Init /\ [][NextKeychains]_vars

\* one assembler call on every input, then Resolve calls on what it returned
InitAssemble == CacheInit /\ KeyInit /\ AsmInit /\ TagNone /\ ReuseNone /\ ReqNone /\ IterNone /\ CollectNone

NextAssemble ==
    \/ AssembleAll /\ UNCHANGED <<cacheVars, keyVars, tagVars, reuseVars, reqVars, iterVars, collectVars>>
    \/ AssembleOne /\ UNCHANGED <<cacheVars, keyVars, tagVars, reuseVars, reqVars, iterVars, collectVars>>
    \/ ResolveStep /\ UNCHANGED <<cacheVars, keyVars, tagVars, reuseVars, reqVars, iterVars, collectVars>>

SpecAssemble == InitAssemble /\ [][NextAssemble]_vars

\* UnmarshalText on every text, then String on what it parsed
InitTagged == CacheInit /\ KeyInit /\ AsmNone /\ TagInit /\ ReuseNone /\ ReqNone /\ IterNone /\ CollectNone

NextTagged ==
    \/ TagUnmarshal /\ UNCHANGED <<cacheVars, keyVars, asmVars, reuseVars, reqVars, iterVars, collectVars>>
    \/ TagString /\ UNCHANGED <<cacheVars, keyVars, asmVars, reuseVars, reqVars, iterVars, collectVars>>

SpecTagged == InitTagged /\ [][NextTagged]_vars

\* sources are wrapped, and the wrappers are used, in any order
InitReuse == CacheInit /\ KeyInit /\ AsmNone /\ TagNone /\ ReuseInit /\ ReqNone /\ IterNone /\ CollectNone

NextReuse ==
    \/ \E src \in DOMAIN heap :
          Reuse(src) /\ UNCHANGED <<cacheVars, keyVars, asmVars, tagVars, reqVars, iterVars, collectVars>>
    \/ \E src \in DOMAIN heap, r \in BOOLEAN, out \in ProviderOutcomes :
          ReuseAPIToken(src, r, out)
          /\ UNCHANGED <<cacheVars, keyVars, asmVars, tagVars, reqVars, iterVars, collectVars>>

SpecReuse == InitReuse /\ [][NextReuse]_vars

\* calls of OAuth2Client.APIToken, and calls on the wrapper held elsewhere
InitClient == CacheInit /\ KeyInit /\ AsmNone /\ TagNone /\ ClientInit /\ ReqNone /\ IterNone /\ CollectNone

NextClient ==
    \/ \E src \in DOMAIN heap, r \in BOOLEAN, out \in ProviderOutcomes :
          ReuseAPIToken(src, r, out)
          /\ UNCHANGED <<cacheVars, keyVars, asmVars, tagVars, reqVars, iterVars, collectVars>>
    \/ \E r \in BOOLEAN, out \in ProviderOutcomes :
          OAuth2ClientAPIToken(r, out)
          /\ UNCHANGED <<cacheVars, keyVars, asmVars, tagVars, reqVars, iterVars, collectVars>>

SpecClient == InitClient /\ [][NextClient]_vars

\* operations of the client, one after the other
NextRequest ==
    \/ \E body \in BOOLEAN :
          RequestStart(body)
          /\ UNCHANGED <<cacheVars, keyVars, asmVars, tagVars, reuseVars, iterVars, collectVars>>
    \/ \E res \in TokenResults :
          RequestToken(res)
          /\ UNCHANGED <<cacheVars, keyVars, asmVars, tagVars, reuseVars, iterVars, collectVars>>
    \/ \E out \in BuildOutcomes :
          RequestBuild(out)
          /\ UNCHANGED <<cacheVars, keyVars, asmVars, tagVars, reuseVars, iterVars, collectVars>>
    \/ \E out \in SendOutcomes :
          RequestSend(out)
          /\ UNCHANGED <<cacheVars, keyVars, asmVars, tagVars, reuseVars, iterVars, collectVars>>

SpecRequest == Init /\ [][NextRequest]_vars

\* one iteration over Tenants or TenantAccessPoints
NextIter ==
    \/ \E kind \in IterKinds :
          IterStart(kind)
          /\ UNCHANGED <<cacheVars, keyVars, asmVars, tagVars, reuseVars, reqVars, collectVars>>
    \/ \E out \in GraphQLOutcomes, cont \in BOOLEAN :
          IterFetch(out, cont)
          /\ UNCHANGED <<cacheVars, keyVars, asmVars, tagVars, reuseVars, reqVars, collectVars>>
    \/ \E cont \in BOOLEAN :
          IterYield(cont)
          /\ UNCHANGED <<cacheVars, keyVars, asmVars, tagVars, reuseVars, reqVars, collectVars>>
    \/ IterPageEnd
          /\ UNCHANGED <<cacheVars, keyVars, asmVars, tagVars, reuseVars, reqVars, collectVars>>

SpecIter == Init /\ [][NextIter]_vars

\* CollectResults on every sequence of pairs
InitCollect ==
    /\ CacheInit /\ KeyInit /\ AsmNone /\ TagNone /\ ReuseNone /\ ReqNone
    /\ IterNone /\ CollectInit

NextCollect ==
    \/ CollectNext
          /\ UNCHANGED <<cacheVars, keyVars, asmVars, tagVars, reuseVars, reqVars, iterVars>>
    \/ CollectEnd
          /\ UNCHANGED <<cacheVars, keyVars, asmVars, tagVars, reuseVars, reqVars, iterVars>>

SpecCollect == InitCollect /\ [][NextCollect]_vars

(***************************************************************************)
(* The credential cache: properties of reusedAPITokenSource.APIToken.      *)
(***************************************************************************)
Calls == 1..Len(hist)
\* the cache is Empty exactly when s.old is the zero token
Empty(t) == t = NoToken

\* C1: a Request(renew=true) whose provider call fails while the cache is
\* Cached(tokenA) leaves the cache untouched and surfaces the error, and the
\* next Request(renew=false) returns tokenA without contacting the provider.
C1_FailedRenewalKeepsToken ==
    \A i \in Calls :
        (hist[i].renew /\ hist[i].err /\ ~Empty(hist[i].pre)) =>
            /\ hist[i].post = hist[i].pre
            /\ hist[i].tok = NoToken
            /\ (i + 1 \in Calls /\ ~hist[i + 1].renew) =>
                   /\ hist[i + 1].tok = hist[i].pre
                   /\ ~hist[i + 1].err
                   /\ hist[i + 1].contacted = 0

\* every provider call so far succeeded with a non-empty token
ProviderReliable ==
    \A j \in 1..Len(provLog) : ~provLog[j].err /\ ~Empty(provLog[j].tok)

Flags == [i \in Calls |-> hist[i].renew]
Returned == [i \in Calls |-> hist[i].tok]

\* C2: in a sequential run against a provider that always succeeds with
\* non-empty tokens, a call contacts the provider exactly when renew is set or
\* the cache is Empty, a hit leaves the cache unchanged, every call returns the
\* token of the most recent provider contact, and flags
\* [false, false, true, false] with tokens token1, token2 give
\* [token1, token1, token2, token2] with two provider calls.
C2_SequentialRun ==
    ProviderReliable =>
        /\ \A i \in Calls :
              /\ hist[i].contacted =
                     (IF hist[i].renew \/ Empty(hist[i].pre) THEN 1 ELSE 0)
              /\ (hist[i].contacted = 0) => (hist[i].post = hist[i].pre)
              /\ ~hist[i].err
              /\ hist[i].nprov >= 1
              /\ hist[i].tok = provLog[hist[i].nprov].tok
        /\ ( /\ Flags = <<FALSE, FALSE, TRUE, FALSE>>
             /\ provLog[1].tok = "token1"
             /\ (Len(provLog) >= 2 => provLog[2].tok = "token2") )
           => /\ Returned = <<"token1", "token1", "token2", "token2">>
              /\ hist[4].nprov = 2

C2_Witness ==
    /\ ProviderReliable
    /\ Flags = <<FALSE, FALSE, TRUE, FALSE>>
    /\ Returned = <<"token1", "token1", "token2", "token2">>
    /\ hist[4].nprov = 2

\* the positions at which a goroutine reads or writes s.old
TouchesOld(p) == pc[p] \in {"read", "runlock", "provider", "inflight", "unlock"}

\* C3: at most one provider call is in flight, it runs under the exclusive
\* lock, and no other caller reads or writes s.old meanwhile.
C3_ExclusiveProviderCall ==
    /\ Cardinality(inflight) <= 1
    /\ \A p \in inflight :
          /\ writer = p
          /\ readers = {}
          /\ \A q \in Procs \ {p} : ~TouchesOld(q)

C3_Witness ==
    \E p \in inflight : \E q \in Procs \ {p} : pc[q] \in {"rlock", "lockwait"}

\* C4: Request(renew=true) contacts the provider exactly once, from Empty and
\* from Cached; when the provider succeeds its token is stored and returned.
C4_RenewContactsOnce ==
    \A i \in Calls :
        hist[i].renew =>
            /\ hist[i].contacted = 1
            /\ ~hist[i].err =>
                  /\ hist[i].tok = hist[i].prov
                  /\ hist[i].post = hist[i].prov

C4_Witness ==
    /\ \E i \in Calls : hist[i].renew /\ ~hist[i].err /\ Empty(hist[i].pre)
    /\ \E i \in Calls :
          /\ hist[i].renew /\ ~hist[i].err
          /\ ~Empty(hist[i].pre) /\ ~Empty(hist[i].tok)
          /\ hist[i].tok # hist[i].pre

\* C5: Request(renew=false) on an Empty cache contacts the provider; if the
\* provider fails the cache stays Empty, the error comes back with no token,
\* and the next Request(renew=false) contacts the provider again.
C5_MissOnEmpty ==
    \A i \in Calls :
        (~hist[i].renew /\ Empty(hist[i].pre)) =>
            /\ hist[i].contacted = 1
            /\ hist[i].err =>
                  /\ Empty(hist[i].post)
                  /\ hist[i].tok = NoToken
                  /\ (i + 1 \in Calls /\ ~hist[i + 1].renew) =>
                         hist[i + 1].contacted = 1

C5_Witness ==
    \E i \in Calls :
        /\ ~hist[i].renew /\ Empty(hist[i].pre) /\ hist[i].err
        /\ i + 1 \in Calls /\ ~hist[i + 1].renew /\ hist[i + 1].contacted = 1

\* the fast path: from s.mu.RLock() to s.mu.RUnlock()
FastPath(p) == pc[p] \in {"rlock", "read", "runlock"}

\* C6: callers of Request(renew=false) that hit a cached token take the lock
\* in shared mode only: a caller is admitted whatever the number of readers
\* already inside, and a caller that read a token returns it without
\* contacting the provider.
C6_SharedFastPath ==
    /\ \A p \in Procs :
          FastPath(p) =>
              /\ writer # p /\ p \notin waiting /\ p \notin inflight
              /\ call[p].contacted = 0
    /\ \A p \in Procs :
          (pc[p] = "rlock" /\ readers # {} /\ writer = NoProc /\ waiting = {})
              => ENABLED RLock(p)
    /\ \A i \in Calls :
          ~Empty(hist[i].read) =>
              /\ hist[i].contacted = 0
              /\ hist[i].tok = hist[i].read
              /\ ~hist[i].err

C6_Witness ==
    /\ Cardinality(readers) >= 2
    /\ \A p \in readers : pc[p] = "runlock" /\ ~Empty(token[p])

(***************************************************************************)
(* The paginated fetch: properties of APIClient.Keychains.                 *)
(***************************************************************************)
Fetches == 1..Len(fetchOuts)
AllFetched == \A i \in Fetches : fetchOuts[i].err = "nil"

\* the data of the pages of outs, one page after the other
RECURSIVE PagesData(_)
PagesData(outs) ==
    IF outs = <<>> THEN <<>>
    ELSE Head(outs).resp.data \o PagesData(Tail(outs))

\* the included items of the pages of outs, one page after the other
RECURSIVE PagesIncluded(_)
PagesIncluded(outs) ==
    IF outs = <<>> THEN <<>>
    ELSE Head(outs).resp.included \o PagesIncluded(Tail(outs))

IDsOf(items) == {items[i].id : i \in 1..Len(items)}

\* C7: the pages are requested as 1, 2, ..., k in that order, one fetch in
\* flight at a time, k being the first page whose next is null; no page is
\* requested twice, skipped, or requested after page k.
C7_PagesInOrder ==
    /\ \A i \in 1..Len(fetchLog) : fetchLog[i] = i
    /\ fetching \in {0, 1}
    /\ Len(fetchLog) = Len(fetchOuts) + fetching
    /\ \A i \in Fetches :
          i < Len(fetchLog) =>
              fetchOuts[i].err = "nil" /\ fetchOuts[i].resp.next # "null"
    /\ (kpc = "returned" /\ AllFetched) =>
          /\ fetchOuts # <<>>
          /\ fetchOuts[Len(fetchOuts)].resp.next = "null"

C7_Witness ==
    /\ kpc = "returned"
    /\ AllFetched
    /\ fetchLog = <<1, 2, 3>>

\* C8: a failed page fetch ends Keychains at once: no further fetch, the
\* error is returned with a nil results container, and nothing accumulated
\* from earlier pages is returned beside an error.
C8_AllOrNothing ==
    /\ kret.err # "nil" => kret.nil /\ kret.data = <<>> /\ kret.refs = EmptyRefs
    /\ \A i \in Fetches :
          fetchOuts[i].err # "nil" =>
              /\ i = Len(fetchOuts)
              /\ Len(fetchLog) = i
              /\ fetching = 0
              /\ kpc = "returned"
              /\ kret.nil
              /\ kret.err = fetchOuts[i].err
              /\ asmLog = <<>>

C8_Witness ==
    /\ kpc = "returned"
    /\ Len(fetchOuts) >= 2
    /\ fetchOuts[Len(fetchOuts)].err # "nil"
    /\ allData # <<>>
    /\ kret.nil

\* C9: the assembler is called exactly once in a Keychains call that fetched
\* every page, after the loop has ended and on all the accumulated items; it
\* is not called when a fetch failed nor on a prefix of the pages.
C9_AssembledOnce ==
    /\ Len(asmLog) <= 1
    /\ asmLog # <<>> =>
          /\ kpc = "returned"
          /\ AllFetched
          /\ fetchOuts # <<>>
          /\ fetchOuts[Len(fetchOuts)].resp.next = "null"
          /\ asmLog[1].data = PagesData(fetchOuts)
          /\ asmLog[1].included = PagesIncluded(fetchOuts)
    /\ kpc = "returned" => (Len(asmLog) = 1 <=> AllFetched)

C9_Witness ==
    /\ Len(asmLog) = 1
    /\ Len(fetchOuts) >= 2
    /\ Len(asmLog[1].data) >= 3

\* the entities that the items a, b and c decode into
EntityA == [id |-> 1, type |-> "keychains", name |-> "a"]
EntityB == [id |-> 2, type |-> "keychains", name |-> "b"]
EntityC == [id |-> 3, type |-> "keychains", name |-> "c"]

\* the pages [a, b | x] with a next link and [c | y] without
ExamplePages ==
    /\ Len(fetchOuts) = 2
    /\ AllFetched
    /\ fetchOuts[1].resp =
           [data |-> <<RefA, RefB>>, included |-> <<RefX>>, next |-> "url"]
    /\ fetchOuts[2].resp =
           [data |-> <<RefC>>, included |-> <<RefY>>, next |-> "null"]

\* C10: the accumulated sequences are the pages' data and included items
\* in page order; a successful assembly returns the decoded primary items in
\* that order and a store with one entry per distinct ID, so pages [a,b | x]
\* and [c | y] give [a,b,c] and 5 store entries.
C10_Accumulation ==
    /\ kpc # "idle" =>
          /\ allData = PagesData(fetchOuts)
          /\ allIncluded = PagesIncluded(fetchOuts)
    /\ (kpc = "returned" /\ ~kret.nil) =>
          /\ Len(kret.data) = Len(PagesData(fetchOuts))
          /\ \A i \in 1..Len(kret.data) :
                /\ kret.data[i].id = PagesData(fetchOuts)[i].id
                /\ kret.data[i].name = PagesData(fetchOuts)[i].data.fields.name
          /\ DOMAIN kret.refs =
                 IDsOf(PagesData(fetchOuts)) \cup IDsOf(PagesIncluded(fetchOuts))
    /\ (kpc = "returned" /\ ExamplePages) =>
          /\ ~kret.nil
          /\ kret.data = <<EntityA, EntityB, EntityC>>
          /\ Cardinality(DOMAIN kret.refs) = 5

C10_Witness ==
    /\ kpc = "returned"
    /\ ExamplePages
    /\ kret.data = <<EntityA, EntityB, EntityC>>

(***************************************************************************)
(* The assembler, its single-item variant, Resolve and the decoder.        *)
(***************************************************************************)
Primaries == 1..Len(aPrimary)
\* the payload of raw is absent
Absent(raw) == ~raw.data.present
\* the decoder rejects raw: no payload, or one that does not fit T
Undecodable(raw) == Absent(raw) \/ ~raw.data.valid
\* the list variant was called and returned a container
ListOk == apc = "list" /\ ~aret.nil

\* the entity the envelope and the payload of raw describe: a member the
\* payload mentions has the payload's value, any other its envelope value
Merged(raw) ==
    [f \in {"id", "type", "name"} |->
        IF f \in DOMAIN raw.data.fields THEN raw.data.fields[f]
        ELSE IF f = "id" THEN raw.id
        ELSE IF f = "type" THEN raw.type
        ELSE ""]

\* C11 as claimed: whenever a primary item has an absent payload, the
\* assembler fails with the missing-payload error naming that item and
\* returns no list and no store.
C11_MissingPayloadNamed ==
    apc = "list" =>
        \A i \in Primaries :
            Absent(aPrimary[i]) =>
                /\ aret.nil /\ aret.data = <<>> /\ aret.refs = EmptyRefs
                /\ aret.err = "missing data field"
                /\ aret.errID = aPrimary[i].id

\* C11 amended: whenever a primary item has an absent payload the assembler
\* returns no list and no store; the error is the one of the first primary
\* item that has no payload or does not decode: missing payload naming its ID
\* if it has none, the decode error naming its ID otherwise.
C11_FirstFailureAborts ==
    apc = "list" =>
        \A i \in Primaries :
            Absent(aPrimary[i]) =>
                /\ aret.nil /\ aret.data = <<>> /\ aret.refs = EmptyRefs
                /\ \E f \in 1..i :
                      /\ Undecodable(aPrimary[f])
                      /\ \A g \in 1..(f - 1) : ~Undecodable(aPrimary[g])
                      /\ aret.errID = aPrimary[f].id
                      /\ aret.err = IF Absent(aPrimary[f])
                                       THEN "missing data field"
                                       ELSE "unmarshal"

C11_Witness ==
    /\ apc = "list"
    /\ Len(aPrimary) = 2
    /\ ~Undecodable(aPrimary[1])
    /\ Absent(aPrimary[2])
    /\ aret.nil
    /\ aret.err = "missing data field"

\* C12: on success data has one decoded entity per primary item, data[i]
\* being the decoding of primaryItems[i], and the included items add nothing.
C12_DataInOrder ==
    ListOk =>
        /\ Len(aret.data) = Len(aPrimary)
        /\ \A i \in Primaries : aret.data[i] = Merged(aPrimary[i])
        /\ aret.data = unmarshalResultsWithReferences(aPrimary, <<>>).data

C12_Witness ==
    /\ ListOk
    /\ Len(aPrimary) = 2
    /\ aret.data[1] # aret.data[2]
    /\ aIncluded # <<>>

\* the last position of ID k in items
LastOf(items, k) ==
    CHOOSE i \in 1..Len(items) :
        /\ items[i].id = k
        /\ \A j \in 1..Len(items) : items[j].id = k => j <= i

\* C13: the keys of the store are the IDs of the primary and of the included
\* items; the entry of an ID is the last inserted, primary items first and
\* included items after, so an included item overrides a primary one.
C13_StoreLastWins ==
    ListOk =>
        LET all == aPrimary \o aIncluded
        IN  /\ DOMAIN aret.refs = IDsOf(aPrimary) \cup IDsOf(aIncluded)
            /\ \A k \in DOMAIN aret.refs : aret.refs[k] = all[LastOf(all, k)]
            /\ \A i \in 1..Len(aIncluded) :
                  \E j \in 1..Len(aIncluded) :
                      aret.refs[aIncluded[i].id] = aIncluded[j]

C13_Witness ==
    /\ ListOk
    /\ aPrimary = <<RefOver, RefA>>
    /\ aIncluded = <<RefA2>>
    /\ aret.refs[1] = RefA2

\* C14: the single-item variant returns the error of the general procedure
\* or the one decoded entity of its item with the store; it never panics.
C14_SingleNeverPanics ==
    apc = "single" =>
        LET general ==
                unmarshalResultsWithReferences(<<Head(aPrimary)>>, aIncluded)
        IN  /\ ~sret.panic
            /\ sret.nil = general.nil
            /\ sret.err = general.err
            /\ sret.errID = general.errID
            /\ ~sret.nil =>
                  /\ sret.data = Merged(Head(aPrimary))
                  /\ sret.refs = general.refs
                  /\ Head(aPrimary).id \in DOMAIN sret.refs

C14_Witness ==
    /\ apc = "single"
    /\ ~sret.nil
    /\ aIncluded # <<>>

\* C15: Resolve on the nil typed reference returns nil and no error whatever
\* the store holds; on a typed reference whose ID is not in the store it
\* returns nil and the not-found error.
C15_ResolveNilAndMissing ==
    \A j \in 1..Len(resLog) :
        /\ aRef.null => resLog[j] = ResolveNil("nil")
        /\ (~aRef.null /\ aRef.id \notin DOMAIN store) =>
               resLog[j] = ResolveNil("not found")

C15_Witness ==
    /\ resLog # <<>>
    /\ ~aRef.null
    /\ aRef.id \notin DOMAIN store
    /\ store # EmptyRefs

\* the store the assembler returned
ReturnedRefs == IF apc = "list" THEN aret.refs ELSE sret.refs

\* C16: Resolve changes neither the store nor the typed reference and keeps
\* no memo: the store stays the one the assembler returned, every Resolve of
\* the reference returns the same value, the decoding of the stored entry.
C16_ResolveReadOnly ==
    /\ [](Assembled =>
            /\ store = ReturnedRefs
            /\ \A i, j \in 1..Len(resLog) : resLog[i] = resLog[j]
            /\ \A j \in 1..Len(resLog) :
                  ~resLog[j].nil => resLog[j].val = Merged(store[aRef.id]))
    /\ [][Len(resLog') > Len(resLog) => store' = store /\ aRef' = aRef]_vars

C16_Witness ==
    /\ Len(resLog) = 2
    /\ ~resLog[1].nil
    /\ resLog[2] = resLog[1]

\* C17: the decoder merges the envelope {id, type} and the payload: a member
\* the payload mentions takes the payload's value, also when the envelope has
\* it too, any other keeps its envelope value; envelope {id: 7, type: panels}
\* with payload {name: A} gives {id: 7, type: panels, name: A}.
C17_PayloadOverEnvelope ==
    ListOk =>
        \A i \in Primaries :
            LET payload == aPrimary[i].data.fields
                entity == aret.data[i]
            IN  /\ \A f \in DOMAIN payload \cap DOMAIN entity :
                      entity[f] = payload[f]
                /\ "id" \notin DOMAIN payload => entity.id = aPrimary[i].id
                /\ "type" \notin DOMAIN payload =>
                       entity.type = aPrimary[i].type
                /\ aPrimary[i] = RefPanel =>
                       entity = [id |-> 7, type |-> "panels", name |-> "A"]

C17_Witness ==
    /\ ListOk
    /\ aPrimary = <<RefPanel, RefOver>>
    /\ aret.data[1] = [id |-> 7, type |-> "panels", name |-> "A"]
    /\ aret.data[2] = [id |-> 9, type |-> "keychains", name |-> ""]

(***************************************************************************)
(* TaggedID: properties of UnmarshalText and String.                       *)
(***************************************************************************)
\* n is an integer numeral: an optional sign and then only digits, one or more
IsInteger(n) ==
    LET body == IF n # <<>> /\ n[1] \in {"+", "-"} THEN Tail(n) ELSE n
    IN  body # <<>> /\ \A k \in 1..Len(body) : IsDigit(body[k])

\* 10 to the power k
RECURSIVE Pow10(_)
Pow10(k) == IF k = 0 THEN 1 ELSE 10 * Pow10(k - 1)

\* the sum of the digits of body weighted by their positions, from k on
RECURSIVE Weighted(_, _)
Weighted(body, k) ==
    IF k > Len(body) THEN 0
    ELSE DigitValue(body[k]) * Pow10(Len(body) - k) + Weighted(body, k + 1)

\* the integer an integer numeral denotes
NumeralValue(n) ==
    IF n[1] = "-" THEN 0 - Weighted(Tail(n), 1)
    ELSE IF n[1] = "+" THEN Weighted(Tail(n), 1)
    ELSE Weighted(n, 1)

\* text is prod-<type>-<n>: i and j are its first two dashes, the type
\* between them is not empty and what follows j is an integer numeral
WellFormedAt(text, i, j) ==
    /\ i < j
    /\ text[i] = Dash /\ text[j] = Dash
    /\ \A k \in 1..(j - 1) : text[k] = Dash => k = i
    /\ SubSeq(text, 1, i - 1) = Prod
    /\ j > i + 1
    /\ IsInteger(SubSeq(text, j + 1, Len(text)))

WellFormed(text) ==
    \E i, j \in 1..Len(text) : WellFormedAt(text, i, j)

\* C18: for every text prod-<type>-<n> that UnmarshalText accepts, String of
\* the parsed identifier is the text again, character for character.
C18_RoundTrip ==
    (tpc = "formatted" /\ WellFormed(tText)) => tOut = tText

\* C19: UnmarshalText fails unless the text is three segments, the first
\* "prod", the second not empty, the third an integer ("bad" and "prod--5"
\* fail); a failure leaves *t as it was, a success sets prefix, type and
\* number from the three segments.
C19_ParseTaggedID ==
    tpc # "input" =>
        /\ tErr <=> ~WellFormed(tText)
        /\ tErr => tTarget = tBefore
        /\ ~tErr =>
              \E i, j \in 1..Len(tText) :
                  /\ WellFormedAt(tText, i, j)
                  /\ tTarget.Prefix = Prod
                  /\ tTarget.Type = SubSeq(tText, i + 1, j - 1)
                  /\ tTarget.Number =
                         NumeralValue(SubSeq(tText, j + 1, Len(tText)))
        /\ tText \in {<<"b", "a", "d">>, Prod \o <<Dash, Dash, "5">>} => tErr

C19_Witness ==
    /\ tpc = "parsed"
    /\ tText = Prod \o <<Dash, "u", "n", Dash, "1", "5">>
    /\ tBefore = TaggedID(Prod, <<"u", "n">>, 9)
    /\ tTarget = TaggedID(Prod, <<"u", "n">>, 15)

(***************************************************************************)
(* ReuseAPITokenSource: properties.                                        *)
(***************************************************************************)
Reuses == 1..Len(reuseLog)

\* C20: ReuseAPITokenSource applied to a wrapper returns that very wrapper,
\* with its cached token as it was and no new source created, so that no
\* wrapper ever wraps a wrapper; applied to any other source it returns a
\* wrapper that did not exist before, around that source, with no token
\* cached, and leaves every existing source as it was.
C20_ReuseIdempotent ==
    /\ \A k \in Reuses :
          LET e == reuseLog[k]
          IN  IF IsReused(e.before, e.arg)
                 THEN /\ e.ret = e.arg
                      /\ e.after = e.before
                 ELSE /\ e.ret \notin DOMAIN e.before
                      /\ DOMAIN e.after = DOMAIN e.before \cup {e.ret}
                      /\ e.after[e.ret] =
                             [kind |-> "reused", new |-> e.arg, old |-> NoToken]
                      /\ \A i \in DOMAIN e.before : e.after[i] = e.before[i]
    /\ \A i \in DOMAIN heap :
          IsReused(heap, i) => ~IsReused(heap, heap[i].new)

C20_Witness ==
    \E j, k \in Reuses :
        /\ j < k
        /\ ~IsReused(reuseLog[j].before, reuseLog[j].arg)
        /\ reuseLog[k].arg = reuseLog[j].ret
        /\ reuseLog[k].before[reuseLog[k].arg].old = "token2"
        /\ reuseLog[k].ret = reuseLog[k].arg

(***************************************************************************)
(* OAuth2Client.APIToken: properties.                                      *)
(***************************************************************************)
ClientCalls == 1..Len(clientLog)

\* C21: every call of OAuth2Client.APIToken asks the authorization server
\* once and returns what that exchange gave, whatever the renew flag and
\* whatever earlier calls returned: it runs on a wrapper that did not exist
\* before the call, so no token cached earlier is returned.
C21_ClientAlwaysExchanges ==
    \A k \in ClientCalls :
        LET e == clientLog[k]
        IN  /\ e.asked = 1
            /\ e.tok = e.out.tok
            /\ e.err = e.out.err
            /\ e.src \notin DOMAIN e.had

C21_Witness ==
    /\ Len(clientLog) = 2
    /\ ~clientLog[1].renew /\ ~clientLog[2].renew
    /\ clientLog[1].tok = "token1"
    /\ clientLog[2].tok = "token2"
    /\ clientLog[2].had[3].old = "token1"

(***************************************************************************)
(* The requests of APIClient: properties.                                  *)
(***************************************************************************)
Events == 1..Len(reqLog)

\* C22: every request sent follows the one token source call of its
\* operation and carries Authorization: Bearer <token> with the token that
\* call returned; when the token source fails the operation returns that
\* error, wrapped, and sends no request.
C22_BearerOfTokenCall ==
    /\ \A k \in Events :
          reqLog[k].ev = "send" =>
              \E j \in 1..(k - 1) :
                  /\ reqLog[j].ev = "token"
                  /\ reqLog[j].op = reqLog[k].op
                  /\ reqLog[j].err = "nil"
                  /\ reqLog[k].req.auth = <<"Bearer ", reqLog[j].tok>>
                  /\ \A i \in Events :
                        (reqLog[i].ev = "token" /\ reqLog[i].op = reqLog[k].op)
                            => i = j
    /\ \A j \in Events :
          (reqLog[j].ev = "token" /\ reqLog[j].err # "nil") =>
              /\ \A k \in Events :
                    reqLog[k].ev = "send" => reqLog[k].op # reqLog[j].op
              /\ j + 1 \in Events
              /\ reqLog[j + 1].ev = "return"
              /\ reqLog[j + 1].op = reqLog[j].op
              /\ reqLog[j + 1].err = <<"failed to get API token", reqLog[j].err>>

C22_Witness ==
    \E j, k \in Events :
        /\ reqLog[j].ev = "token" /\ reqLog[j].err = "denied"
        /\ reqLog[k].ev = "send" /\ reqLog[k].req.auth = <<"Bearer ", "token2">>

(***************************************************************************)
(* The credential cache: concurrent fills, empty tokens, progress.         *)
(***************************************************************************)
\* every call started so far has renew = false
NoRenewal ==
    /\ \A i \in Calls : ~hist[i].renew
    /\ \A p \in Procs : pc[p] # "idle" => ~renew[p]

\* C23: when concurrent callers call Request(renew=false) on an Empty cache
\* and the provider succeeds, the provider is contacted only once and every
\* caller returns the same token.
C23_SingleFill ==
    (NoRenewal /\ ProviderReliable) =>
        /\ Len(provLog) <= 1
        /\ \A i, j \in Calls : hist[i].tok = hist[j].tok

\* C24: after a Request whose provider call succeeded, the next
\* Request(renew=false) returns the same token without contacting the
\* provider, whatever token the provider returned.
C24_SuccessIsCached ==
    \A i \in Calls :
        (hist[i].contacted = 1 /\ ~hist[i].err /\ i + 1 \in Calls
         /\ ~hist[i + 1].renew) =>
            /\ hist[i + 1].contacted = 0
            /\ hist[i + 1].tok = hist[i].tok

\* C25: under fair scheduling, and provided every provider call returns, every
\* call of APIToken that has started returns; a caller that has returned,
\* with or without an error, holds the lock in no mode, and a caller asking
\* for the exclusive lock does not hold the shared one.
C25_EveryCallReturns ==
    /\ \A p \in Procs : (pc[p] # "idle") ~> (pc[p] = "idle")
    /\ [](\A p \in Procs : pc[p] = "idle" => (writer # p /\ p \notin readers))
    /\ [](\A p \in Procs : pc[p] \in {"lock", "lockwait"} => p \notin readers)

C25_Witness ==
    /\ Len(hist) >= 2
    /\ hist[1].err /\ hist[1].contacted = 1
    /\ hist[2].contacted = 1
    /\ \A p \in Procs : pc[p] = "idle"

(***************************************************************************)
(* The store and Resolve: type tags and payloads.                          *)
(***************************************************************************)
Resolves == 1..Len(resLog)

\* C26: when Resolve succeeds on a non-null typed reference, the stored raw
\* reference it decoded has the type tag of the typed reference: an entity
\* of another type with the same numeric ID is never the resolution.
C26_ResolveSameType ==
    \A j \in Resolves :
        (~aRef.null /\ ~resLog[j].nil) => store[aRef.id].type = aRef.type

StopAt(i) == fetchOuts[i].err # "nil" \/ fetchOuts[i].resp.next = "null"
\* some page fetch so far failed or reported no next page
Stopped == \E i \in 1..Len(fetchOuts) : StopAt(i)

\* C28: Keychains returns only after a page fetch that failed or a page with
\* next == null, and that fetch is its last one: after it the call has
\* returned or is returning without another fetch.  Until then, however many
\* pages it has fetched, the loop condition holds and the next step is the
\* fetch of the following page: the call does not return.
C28_ReturnsExactlyOnStop ==
    /\ \A i \in 1..Len(fetchOuts) : StopAt(i) => i = Len(fetchOuts)
    /\ kpc = "returned" => Stopped
    /\ Stopped => (kpc = "returned" \/ (kpc = "loop" /\ ~hasNext))
    /\ (kpc = "loop" /\ ~Stopped) =>
           /\ hasNext
           /\ page = Len(fetchOuts) + 1

C28_Witness ==
    /\ Len(fetchOuts) = MaxPages
    /\ ~Stopped
    /\ kpc = "loop"
    /\ hasNext

(***************************************************************************)
(* The Tenants and TenantAccessPoints iterators: properties.               *)
(***************************************************************************)
Fetched == 1..Len(ifetch)
Yielded == 1..Len(iyield)

\* the k-th page fetch failed
FetchFailed(k) == ifetch[k].out.err # "nil"

\* the items the iterator reads from the k-th response: none from a failed
\* fetch, and none for TenantAccessPoints unless there is one tenant node
ItemsOf(k) ==
    IF FetchFailed(k) THEN <<>>
    ELSE IF ikind = "accesspoints" /\ ifetch[k].out.resp.tenants # 1 THEN <<>>
    ELSE ifetch[k].out.resp.items

\* the items of the first k responses, in order
RECURSIVE ItemsUpTo(_)
ItemsUpTo(k) == IF k = 0 THEN <<>> ELSE ItemsUpTo(k - 1) \o ItemsOf(k)

IsValue(e) == e.err = "nil"
\* the values yielded without an error, in order
ValuesYielded ==
    LET vs == SelectSeq(iyield, IsValue)
    IN  [j \in 1..Len(vs) |-> vs[j].val]

IsPrefix(a, b) == Len(a) <= Len(b) /\ SubSeq(b, 1, Len(a)) = a

\* C29: the iterators yield the items of the pages in the order fetched, each
\* page asked for with the end cursor of the one before and every page before
\* the last one yielded in full, and they stop for good at the first stopping
\* event: a failed fetch is the last fetch and its error the one error
\* element and the last element; an element at which the consumer stops is
\* the last element and no page is fetched after it; a page with hasNextPage
\* false is the last page fetched.
C29_IteratorStops ==
    /\ IsPrefix(ValuesYielded, ItemsUpTo(Len(ifetch)))
    /\ ifetch # <<>> => Len(ValuesYielded) >= Len(ItemsUpTo(Len(ifetch) - 1))
    /\ \A k \in Fetched :
          ifetch[k].after =
              (IF k = 1 THEN 0 ELSE ifetch[k - 1].out.resp.endCursor)
    /\ \A k \in Fetched :
          FetchFailed(k) =>
              /\ k = Len(ifetch)
              /\ ipc = "done"
              /\ iyield # <<>>
              /\ iyield[Len(iyield)].err = ifetch[k].out.err
              /\ \A j \in 1..(Len(iyield) - 1) : iyield[j].err = "nil"
    /\ \A j \in Yielded :
          (iyield[j].err # "nil" \/ ~iyield[j].cont) =>
              /\ j = Len(iyield)
              /\ ipc = "done"
              /\ Len(ifetch) = iyield[j].nfetch
    /\ \A k \in Fetched :
          (~FetchFailed(k) /\ ~ifetch[k].out.resp.hasNextPage) =>
              /\ k = Len(ifetch)
              /\ ipc \in {"items", "done"}

C29_Witness ==
    /\ ipc = "done"
    /\ Len(ifetch) = 2
    /\ ~FetchFailed(1) /\ FetchFailed(2)
    /\ Len(iyield) = 3
    /\ ValuesYielded = <<"a", "b">>
    /\ iyield[3].err = "fetch"

(***************************************************************************)
(* CollectResults: properties.                                             *)
(***************************************************************************)
\* the positions of cseq that carry an error
ErrorsAt == {j \in 1..Len(cseq) : cseq[j].err # "nil"}
\* the values of the first n pairs
ValuesBefore(n) == [j \in 1..(n - 1) |-> cseq[j].val]

\* C30: CollectResults returns the values handed over before the first pair
\* with an error, in order; if there is such a pair it takes nothing from the
\* iterator after it and returns its error beside those values, and if there
\* is none it returns every value and no error.
C30_CollectUntilError ==
    /\ \A f \in ErrorsAt : cpos <= f
    /\ cpc = "returned" =>
           IF ErrorsAt = {}
              THEN /\ cret.err = "nil"
                   /\ cret.results = ValuesBefore(Len(cseq) + 1)
                   /\ cpos = Len(cseq)
              ELSE \E f \in ErrorsAt :
                      /\ \A g \in ErrorsAt : f <= g
                      /\ cret.err = cseq[f].err
                      /\ cret.results = ValuesBefore(f)
                      /\ cpos = f

C30_Witness ==
    /\ cpc = "returned"
    /\ cseq = <<Pair("a", "nil"), Pair("a", "e2"), Pair("b", "nil")>>
    /\ cret = [results |-> <<"a">>, err |-> "e2"]
    /\ cpos = 2
====
